---------------------------- MODULE Spec2Model ----------------------------
(***************************************************************************)
(* Model of check_duplicates() in check_duplicates.py: the vocabulary      *)
(* de-duplication pass (first occurrence of each lower-cased 'original'    *)
(* wins) and the hand-assembled line-per-entry JSON writer.                *)
(*                                                                         *)
(* Representation.  A JSON string value is Str(s) with s a sequence of     *)
(* characters, a JSON number is Num(n); a JSON object is a function from   *)
(* key names to values and a JSON array is a sequence.  Dictionary keys    *)
(* are TLA+ strings.  Text written to the output file is a sequence of     *)
(* tokens: punctuation, whitespace, key and atom tokens; every token and   *)
(* value carries its characters as a sequence (a number: its digits).      *)
(***************************************************************************)
EXTENDS Integers, Sequences, FiniteSets, TLC

\* Longest input entry list explored.
MaxEntries == 3

---------------------------------------------------------------------------
(* Values *)

Str(s) == [type |-> "str", val |-> s]
Num(n) == [type |-> "int", val |-> n]

\* A lone surrogate code point: json.load accepts the escape \ud800, json.dumps
\* with ensure_ascii=False emits it literally, the utf-8 codec refuses it.
Surrogate == "U+D800"

\* Absent value (Python: name not bound yet / file not on disk).
None == [none |-> TRUE]

EmptyDict == [k \in {} |-> None]

Range(s) == {s[i] : i \in 1..Len(s)}

\* str.lower() on one character.
LowerChar(c) ==
    CASE c = "A" -> "a"
      [] c = "B" -> "b"
      [] OTHER   -> c

\* str.lower(): character by character.
Lower(s) == [i \in 1..Len(s) |-> LowerChar(s[i])]

---------------------------------------------------------------------------
(* Inputs *)

Originals ==
    { Str(<<"a">>), Str(<<"A">>), Str(<<"b">>), Str(<<"A", "b">>), Num(<<"7">>) }

\* Entries of the input file: a string 'original' in several spellings, the
\* same spelling with another translation, a translation holding a lone
\* surrogate, a numeric 'original', and an entry without 'original'.
Entry ==
    { [original |-> o, translation |-> Str(<<"x">>)] : o \in Originals }
    \cup { [original |-> Str(<<"a">>), translation |-> Str(<<"y">>)],
           [original |-> Str(<<"b">>), translation |-> Str(<<Surrogate>>)],
           [translation |-> Str(<<"x">>)] }

EntryLists == UNION { [1..n -> Entry] : n \in 0..MaxEntries }

\* Top-level metadata of the input document.
Metadata ==
    { EmptyDict,
      [version |-> Str(<<"1">>)],
      [version |-> Str(<<"1">>), language |-> Str(<<"z", "h">>)] }

\* Documents json.load can return: with an "entries" list, or without one.
Documents ==
    { m @@ [entries |-> es] : m \in Metadata, es \in EntryLists }
    \cup Metadata

InputPath == "loc_core_vocabulary_zh-CN.json"

---------------------------------------------------------------------------
(* State *)

VARIABLES
    inputFile,        \* the input file on disk: None or its parsed content
    outExists,        \* the output file exists on disk
    outText,          \* tokens written to the output file
    pc,               \* position in check_duplicates()
    vocabulary,       \* json.load result
    entries,          \* vocabulary["entries"]
    processed_words,  \* set of lower-cased words seen
    unique_entries,   \* retained entries
    duplicates,       \* 'original' of every discarded entry
    idx,              \* number of entries the for loop has consumed
    new_vocabulary,   \* the copy with "entries" replaced
    wi,               \* number of entries written
    console,          \* lines printed
    err               \* the exception caught at line 103

vars == << inputFile, outExists, outText, pc, vocabulary, entries,
           processed_words, unique_entries, duplicates, idx, new_vocabulary,
           wi, console, err >>

NoError == [type |-> "none", args |-> <<>>]

Line(kind, arg) == [kind |-> kind, arg |-> arg]

Init ==
    /\ inputFile \in {None} \cup Documents
    /\ outExists = FALSE
    /\ outText = <<>>
    /\ pc = "start"
    /\ vocabulary = None
    /\ entries = <<>>
    /\ processed_words = {}
    /\ unique_entries = <<>>
    /\ duplicates = <<>>
    /\ idx = 0
    /\ new_vocabulary = None
    /\ wi = 0
    /\ console = <<>>
    /\ err = NoError

---------------------------------------------------------------------------
(* Exceptions *)

KeyError(k) == [type |-> "KeyError", args |-> <<k>>]
AttributeError(t) == [type |-> "AttributeError", args |-> <<t, "lower">>]
UnicodeEncodeError == [type |-> "UnicodeEncodeError", args |-> <<Surrogate>>]

\* except Exception as e: print the message and the traceback, fall off the
\* end of the function.  Nothing is removed or rolled back.
Handle(e) ==
    /\ err' = e
    /\ console' = console \o << Line("error", e.args), Line("traceback", e.type) >>
    /\ pc' = "failed"

---------------------------------------------------------------------------
(* Existence check, read, extraction *)

\* Variant: the existence check does not return.
CheckExists_NoReturn ==
    /\ pc = "start"
    /\ pc' = "read"
    /\ UNCHANGED << inputFile, outExists, outText, vocabulary, entries,
                    processed_words, unique_entries, duplicates, idx,
                    new_vocabulary, wi, console, err >>

\* Lines 27-34.
CheckExists ==
    /\ pc = "start"
    /\ IF inputFile = None
       THEN /\ console' = console \o << Line("not_found", InputPath),
                                        Line("cwd", "getcwd"),
                                        Line("script_dir", "current_dir"),
                                        Line("hint", "") >>
            /\ pc' = "returned"
       ELSE /\ pc' = "read"
            /\ UNCHANGED console
    /\ UNCHANGED << inputFile, outExists, outText, vocabulary, entries,
                    processed_words, unique_entries, duplicates, idx,
                    new_vocabulary, wi, err >>

ReadInput ==
    /\ pc = "read"
    /\ IF inputFile = None
       THEN /\ Handle([type |-> "FileNotFoundError", args |-> <<InputPath>>])
            /\ UNCHANGED vocabulary
       ELSE /\ vocabulary' = inputFile
            /\ pc' = "extract"
            /\ UNCHANGED << console, err >>
    /\ UNCHANGED << inputFile, outExists, outText, entries, processed_words,
                    unique_entries, duplicates, idx, new_vocabulary, wi >>

ExtractEntries ==
    /\ pc = "extract"
    /\ IF "entries" \in DOMAIN vocabulary
       THEN /\ entries' = vocabulary["entries"]
            /\ console' = Append(console, Line("input_count", Len(vocabulary["entries"])))
            /\ processed_words' = {}
            /\ unique_entries' = <<>>
            /\ duplicates' = <<>>
            /\ pc' = "loop"
            /\ UNCHANGED err
       ELSE /\ Handle(KeyError("entries"))
            /\ UNCHANGED << entries, processed_words, unique_entries, duplicates >>
    /\ UNCHANGED << inputFile, outExists, outText, vocabulary, idx,
                    new_vocabulary, wi >>

---------------------------------------------------------------------------
(* The de-duplication loop *)

\* entry["original"].lower() succeeds.
WellFormed(entry) ==
    /\ "original" \in DOMAIN entry
    /\ entry["original"].type = "str"

\* The exception entry["original"].lower() raises otherwise.
EntryError(entry) ==
    IF "original" \notin DOMAIN entry
    THEN KeyError("original")
    ELSE AttributeError(entry["original"].type)

\* Variant: the comparison key is not lower-cased.
DedupKey_NoLower(entry) == entry["original"].val

\* original_lower of an entry.
DedupKey(entry) == Lower(entry["original"].val)

\* Variant: a retained entry is put in front of the list.
ProcessEntry_Prepend(st, entry) ==
    IF DedupKey(entry) \in st.processed_words
    THEN [st EXCEPT !.duplicates = Append(@, entry["original"].val)]
    ELSE [st EXCEPT !.unique_entries = << entry >> \o @,
                    !.processed_words = @ \cup {DedupKey(entry)}]

\* Variant: a discarded entry is not recorded.
ProcessEntry_DropDup(st, entry) ==
    IF DedupKey(entry) \in st.processed_words
    THEN st
    ELSE [st EXCEPT !.unique_entries = Append(@, entry),
                    !.processed_words = @ \cup {DedupKey(entry)}]

\* Variant: the lower-cased word is recorded for a discarded entry.
ProcessEntry_RecordLower(st, entry) ==
    IF DedupKey(entry) \in st.processed_words
    THEN [st EXCEPT !.duplicates = Append(@, DedupKey(entry))]
    ELSE [st EXCEPT !.unique_entries = Append(@, entry),
                    !.processed_words = @ \cup {DedupKey(entry)}]

\* Variant: the 'continue' is missing, a duplicate is recorded and retained.
ProcessEntry_NoContinue(st, entry) ==
    LET st1 == IF DedupKey(entry) \in st.processed_words
               THEN [st EXCEPT !.duplicates = Append(@, entry["original"].val)]
               ELSE st
    IN [st1 EXCEPT !.unique_entries = Append(@, entry),
                   !.processed_words = @ \cup {DedupKey(entry)}]

\* One iteration of the loop body on a well-formed entry; st holds the three
\* collections.
ProcessEntry(st, entry) ==
    IF DedupKey(entry) \in st.processed_words
    THEN [st EXCEPT !.duplicates = Append(@, entry["original"].val)]
    ELSE [st EXCEPT !.unique_entries = Append(@, entry),
                    !.processed_words = @ \cup {DedupKey(entry)}]

LoopState == [processed_words |-> processed_words,
              unique_entries  |-> unique_entries,
              duplicates      |-> duplicates]

LoopIter ==
    /\ pc = "loop"
    /\ idx < Len(entries)
    /\ LET entry == entries[idx + 1] IN
         IF WellFormed(entry)
         THEN LET st == ProcessEntry(LoopState, entry) IN
                /\ processed_words' = st.processed_words
                /\ unique_entries' = st.unique_entries
                /\ duplicates' = st.duplicates
                /\ idx' = idx + 1
                /\ UNCHANGED << pc, console, err >>
         ELSE /\ Handle(EntryError(entry))
              /\ UNCHANGED << processed_words, unique_entries, duplicates, idx >>
    /\ UNCHANGED << inputFile, outExists, outText, vocabulary, entries,
                    new_vocabulary, wi >>

\* Variant: new_vocabulary = vocabulary without copy(); both names denote
\* the one dict the assignment changes.
CopyDocument_Alias ==
    /\ pc = "loop"
    /\ idx = Len(entries)
    /\ new_vocabulary' = [k \in DOMAIN vocabulary |->
                            IF k = "entries" THEN unique_entries ELSE vocabulary[k]]
    /\ vocabulary' = new_vocabulary'
    /\ pc' = "open"
    /\ UNCHANGED << inputFile, outExists, outText, entries,
                    processed_words, unique_entries, duplicates, idx, wi,
                    console, err >>

\* vocabulary.copy() is a new dict; the assignment rebinds "entries" in the
\* copy only.
CopyDocument ==
    /\ pc = "loop"
    /\ idx = Len(entries)
    /\ new_vocabulary' = [k \in DOMAIN vocabulary |->
                            IF k = "entries" THEN unique_entries ELSE vocabulary[k]]
    /\ pc' = "open"
    /\ UNCHANGED << inputFile, outExists, outText, vocabulary, entries,
                    processed_words, unique_entries, duplicates, idx, wi,
                    console, err >>

---------------------------------------------------------------------------
(* json.dumps and the text written to the output file *)

P(c) == [type |-> "punct", val |-> <<c>>]
Ws(c) == [type |-> "ws", val |-> <<c>>]
Key(k) == [type |-> "key", val |-> <<k>>]

\* Iteration order of a dict's keys (insertion order of the input file).
KeyOrder == << "version", "language", "original", "translation", "entries" >>

KeysOf(d) == SelectSeq(KeyOrder, LAMBDA k : k \in DOMAIN d)

RECURSIVE DumpMembers(_, _)
DumpMembers(d, ks) ==
    IF ks = <<>> THEN <<>>
    ELSE << Key(ks[1]), P(":"), Ws(" "), d[ks[1]] >>
         \o (IF Len(ks) > 1
             THEN << P(","), Ws(" ") >> \o DumpMembers(d, Tail(ks))
             ELSE <<>>)

\* json.dumps(d, ensure_ascii=False) of a dict whose values are strings or
\* numbers: "{" members "}" with ", " and ": " separators.
Dumps(d) == << P("{") >> \o DumpMembers(d, KeysOf(d)) \o << P("}") >>

\* s[:-1]
DropLast(s) == SubSeq(s, 1, Len(s) - 1)

\* The utf-8 codec can encode the text.
Encodable(text) ==
    \A i \in 1..Len(text) :
        text[i].type = "str" => Surrogate \notin Range(text[i].val)

\* f.write(text): the whole string is encoded first, so a failing write adds
\* nothing; leaving the with block closes the file with what was written.
Write(text, next) ==
    IF Encodable(text)
    THEN /\ outText' = outText \o text
         /\ pc' = next
         /\ UNCHANGED << console, err >>
    ELSE /\ Handle(UnicodeEncodeError)
         /\ UNCHANGED outText

\* open(output_file, 'w') creates the file empty.
OpenOutput ==
    /\ pc = "open"
    /\ outExists' = TRUE
    /\ outText' = <<>>
    /\ pc' = "header"
    /\ UNCHANGED << inputFile, vocabulary, entries, processed_words,
                    unique_entries, duplicates, idx, new_vocabulary, wi,
                    console, err >>

Header == [k \in DOMAIN new_vocabulary \ {"entries"} |-> new_vocabulary[k]]

HeaderText == DropLast(Dumps(Header)) \o << P(","), Ws("\n") >>

WriteHeader ==
    /\ pc = "header"
    /\ Write(HeaderText, "entries_key")
    /\ UNCHANGED << inputFile, outExists, vocabulary, entries, processed_words,
                    unique_entries, duplicates, idx, new_vocabulary, wi >>

WriteEntriesKey ==
    /\ pc = "entries_key"
    /\ Write(<< Key("entries"), P(":"), Ws(" "), P("["), Ws("\n") >>, "write_entries")
    /\ wi' = 0
    /\ UNCHANGED << inputFile, outExists, vocabulary, entries, processed_words,
                    unique_entries, duplicates, idx, new_vocabulary >>

EntryText(i) ==
    << Ws("  ") >> \o Dumps(unique_entries[i + 1])
    \o (IF i < Len(unique_entries) - 1
        THEN << P(","), Ws("\n") >>
        ELSE << Ws("\n") >>)

WriteEntry ==
    /\ pc = "write_entries"
    /\ wi < Len(unique_entries)
    /\ Write(EntryText(wi), "write_entries")
    /\ wi' = IF Encodable(EntryText(wi)) THEN wi + 1 ELSE wi
    /\ UNCHANGED << inputFile, outExists, vocabulary, entries, processed_words,
                    unique_entries, duplicates, idx, new_vocabulary >>

WriteTail ==
    /\ pc = "write_entries"
    /\ wi = Len(unique_entries)
    /\ Write(<< P("]"), Ws("\n"), P("}") >>, "report")
    /\ UNCHANGED << inputFile, outExists, vocabulary, entries, processed_words,
                    unique_entries, duplicates, idx, new_vocabulary, wi >>

OutputPath == "loc_core_vocabulary_zh-CN_no_duplicates_timestamp.json"

Report ==
    /\ pc = "report"
    /\ console' = console \o << Line("duplicate_count", Len(duplicates)),
                                Line("unique_count", Len(unique_entries)),
                                Line("saved", OutputPath) >>
                          \o (IF duplicates # <<>>
                              THEN << Line("duplicate_list", duplicates) >>
                              ELSE <<>>)
    /\ pc' = "done"
    /\ UNCHANGED << inputFile, outExists, outText, vocabulary, entries,
                    processed_words, unique_entries, duplicates, idx,
                    new_vocabulary, wi, err >>

Next ==
    \/ CheckExists
    \/ ReadInput
    \/ ExtractEntries
    \/ LoopIter
    \/ CopyDocument
    \/ OpenOutput
    \/ WriteHeader
    \/ WriteEntriesKey
    \/ WriteEntry
    \/ WriteTail
    \/ Report

---------------------------------------------------------------------------
(* Reading the written text back: a JSON parser over tokens *)

Fail == [ok |-> FALSE, pos |-> 0, val |-> None]
Ok(v, p) == [ok |-> TRUE, pos |-> p, val |-> v]

IsPunct(t, i, c) == i <= Len(t) /\ t[i] = P(c)

RECURSIVE ParseValue(_, _), ParseMembers(_, _, _), ParseElements(_, _, _)

\* value := atom | "{" [members] "}" | "[" [elements] "]"
ParseValue(t, i) ==
    IF i > Len(t) THEN Fail
    ELSE IF t[i].type \in {"str", "int"} THEN Ok(t[i], i + 1)
    ELSE IF IsPunct(t, i, "{")
         THEN IF IsPunct(t, i + 1, "}") THEN Ok(EmptyDict, i + 2)
              ELSE ParseMembers(t, i + 1, EmptyDict)
    ELSE IF IsPunct(t, i, "[")
         THEN IF IsPunct(t, i + 1, "]") THEN Ok(<<>>, i + 2)
              ELSE ParseElements(t, i + 1, <<>>)
    ELSE Fail

\* members := key ":" value ("," members)? "}" ; a repeated key keeps the last
ParseMembers(t, i, acc) ==
    IF ~(i <= Len(t) /\ t[i].type = "key" /\ IsPunct(t, i + 1, ":")) THEN Fail
    ELSE LET r == ParseValue(t, i + 2) IN
         IF ~r.ok THEN Fail
         ELSE LET d == (t[i].val[1] :> r.val) @@ acc IN
              IF IsPunct(t, r.pos, ",") THEN ParseMembers(t, r.pos + 1, d)
              ELSE IF IsPunct(t, r.pos, "}") THEN Ok(d, r.pos + 1)
              ELSE Fail

\* elements := value ("," elements)? "]"
ParseElements(t, i, acc) ==
    LET r == ParseValue(t, i) IN
    IF ~r.ok THEN Fail
    ELSE IF IsPunct(t, r.pos, ",") THEN ParseElements(t, r.pos + 1, Append(acc, r.val))
    ELSE IF IsPunct(t, r.pos, "]") THEN Ok(Append(acc, r.val), r.pos + 1)
    ELSE Fail

\* json.loads(text): whitespace is skipped, one value spans the whole text.
Loads(text) ==
    LET t == SelectSeq(text, LAMBDA tok : tok.type # "ws")
        r == ParseValue(t, 1)
    IN IF r.ok /\ r.pos = Len(t) + 1 THEN r ELSE Fail

---------------------------------------------------------------------------
(* The loop as a function of the entry list *)

RECURSIVE RunLoop(_, _)
RunLoop(st, es) ==
    IF es = <<>> THEN st ELSE RunLoop(ProcessEntry(st, Head(es)), Tail(es))

\* Lines 45-65 on a list of well-formed entries.
Deduplicate(es) ==
    RunLoop([processed_words |-> {}, unique_entries |-> <<>>, duplicates |-> <<>>], es)

---------------------------------------------------------------------------
(* Properties *)

\* The lower-cased 'original' of an entry, as the properties speak of it.
LowerOriginal(e) == Lower(e["original"].val)

\* The for loop has run to its end.
LoopDone ==
    /\ pc \in {"loop", "open", "header", "entries_key", "write_entries",
               "report", "done", "failed"}
    /\ vocabulary # None
    /\ "entries" \in DOMAIN vocabulary
    /\ idx = Len(entries)

\* Input indices consumed so far whose key occurred at a smaller index.
IsRepeat(i) ==
    \E j \in 1..(i - 1) : LowerOriginal(entries[j]) = LowerOriginal(entries[i])

RECURSIVE IsSubsequence(_, _)
IsSubsequence(u, s) ==
    IF u = <<>> THEN TRUE
    ELSE IF s = <<>> THEN FALSE
    ELSE IF Head(u) = Head(s) THEN IsSubsequence(Tail(u), Tail(s))
    ELSE IsSubsequence(u, Tail(s))

\* C1: first occurrence wins.  When the loop has finished, every lower-cased
\* 'original' of the input is borne by exactly one retained entry, and that
\* entry is the input entry at the smallest index bearing it.
FirstOccurrenceWins ==
    LoopDone =>
      \A i \in 1..Len(entries) :
        LET v == LowerOriginal(entries[i])
            first == CHOOSE j \in 1..i :
                        /\ LowerOriginal(entries[j]) = v
                        /\ \A k \in 1..(j - 1) : LowerOriginal(entries[k]) # v
            bearers == {j \in 1..Len(unique_entries) :
                          LowerOriginal(unique_entries[j]) = v}
        IN /\ Cardinality(bearers) = 1
           /\ \A j \in bearers : unique_entries[j] = entries[first]

\* A later entry with the same key in another spelling or with another
\* translation was dropped.
FirstOccurrenceWinsWitness ==
    /\ LoopDone
    /\ \E i, j \in 1..Len(entries) :
         /\ i < j
         /\ LowerOriginal(entries[i]) = LowerOriginal(entries[j])
         /\ entries[i] # entries[j]
         /\ entries[i]["original"] # entries[j]["original"]

\* C2: order preservation.  At every point of the loop the retained entries
\* are a subsequence of the input entries consumed so far.
OrderPreserved ==
    IsSubsequence(unique_entries, SubSeq(entries, 1, idx))

OrderPreservedWitness ==
    /\ pc = "loop"
    /\ Len(unique_entries) >= 2
    /\ unique_entries[1] # unique_entries[2]
    /\ Len(duplicates) >= 1

\* C3: count conservation.  After k entries retained + duplicates = k, at
\* the end of the loop it is the input count, and the counts printed at
\* lines 93-94 add up to the count printed at line 42.
CountConservation ==
    /\ Len(unique_entries) + Len(duplicates) = idx
    /\ LoopDone => Len(unique_entries) + Len(duplicates) = Len(entries)
    /\ pc = "done" =>
         \E a, b, c \in 1..Len(console) :
           /\ console[a].kind = "input_count"
           /\ console[b].kind = "duplicate_count"
           /\ console[c].kind = "unique_count"
           /\ console[a].arg = Len(inputFile["entries"])
           /\ console[b].arg + console[c].arg = console[a].arg

CountConservationWitness ==
    /\ pc = "done"
    /\ Len(duplicates) >= 1
    /\ Len(unique_entries) >= 2

\* The 'original' values, as spelled, of the consumed entries that repeat an
\* earlier key, in input order.
ExpectedDuplicates ==
    LET rep == SelectSeq([i \in 1..idx |-> i], IsRepeat)
    IN [k \in 1..Len(rep) |-> entries[rep[k]]["original"].val]

DuplicatesRecorded == duplicates = ExpectedDuplicates

SkipChangesNothingElse ==
    (pc = "loop" /\ idx' = idx + 1 /\ IsRepeat(idx + 1))
        => UNCHANGED << processed_words, unique_entries >>

\* C4: the duplicates list holds, in input order, the 'original' as spelled
\* of every discarded entry (n occurrences of a key give n-1 elements), and
\* discarding an entry changes neither the seen set nor the retained list.
DuplicatesList == []DuplicatesRecorded /\ [][SkipChangesNothingElse]_vars

\* A key met three times in three spellings: two elements, as spelled.
DuplicatesListWitness ==
    /\ LoopDone
    /\ duplicates = << <<"A">>, <<"a">> >>
    /\ Len(unique_entries) = 1

\* C5: metadata passthrough.  The new document has the input's top-level
\* keys, each key but "entries" with the input's value, and "entries" of the
\* document that was read still is the input's entry list.
MetadataPassthrough ==
    new_vocabulary # None =>
      /\ DOMAIN new_vocabulary = DOMAIN inputFile
      /\ \A k \in DOMAIN inputFile \ {"entries"} : new_vocabulary[k] = inputFile[k]
      /\ new_vocabulary["entries"] = unique_entries
      /\ vocabulary["entries"] = inputFile["entries"]

MetadataPassthroughWitness ==
    /\ new_vocabulary # None
    /\ DOMAIN new_vocabulary = {"version", "language", "entries"}
    /\ new_vocabulary["entries"] # inputFile["entries"]

\* C6: idempotence.  The pass run on the retained entries records no
\* duplicate and retains them all, in order.
Idempotence ==
    LoopDone =>
      LET again == Deduplicate(unique_entries)
      IN /\ again.duplicates = <<>>
         /\ again.unique_entries = unique_entries

IdempotenceWitness ==
    /\ LoopDone
    /\ Len(duplicates) >= 1
    /\ Len(unique_entries) >= 2
    /\ Len(entries) = MaxEntries

\* C7 (as claimed): after a failure that follows the existence check the
\* output file does not exist or holds the complete new document.
NoPartialOutput ==
    (pc = "failed" /\ inputFile # None) =>
      \/ ~outExists
      \/ /\ Loads(outText).ok
         /\ Loads(outText).val = new_vocabulary

\* C8 (as claimed): when the loop stops at an entry without a string
\* 'original', the reported error names the index of that entry and no
\* output file was created.
MalformedEntryReported ==
    (pc = "failed" /\ idx < Len(entries) /\ ~WellFormed(entries[idx + 1])) =>
      /\ ToString(idx) \in Range(err.args)
      /\ ~outExists

\* C9: with the input file missing the function prints the path it tried and
\* returns; it reads nothing, processes nothing and creates no output file,
\* and nothing is read or written before the check.
MissingInputFile ==
    /\ pc = "start" => vocabulary = None /\ ~outExists /\ outText = <<>>
    /\ inputFile = None =>
         /\ pc \in {"start", "returned"}
         /\ vocabulary = None
         /\ idx = 0
         /\ new_vocabulary = None
         /\ ~outExists
         /\ outText = <<>>
         /\ pc = "returned" => console[1] = Line("not_found", InputPath)

MissingInputFileWitness ==
    /\ inputFile = None
    /\ pc = "returned"

\* C10 (as claimed): the text written is well-formed and parses back to the
\* new document, whatever the metadata and the retained entries.
RoundTrip ==
    pc \in {"report", "done"} =>
      /\ Loads(outText).ok
      /\ Loads(outText).val = new_vocabulary

Spec == Init /\ [][Next]_vars

=============================================================================
